---------------------------- MODULE Spec2Model ----------------------------
(***************************************************************************)
(* Model of packages/server/src/plugins/request-logger.plugin.ts: the      *)
(* request-logger Fastify plugin (preHandler / onSend / onError hooks, the *)
(* background task that reads the logging branch of a tee'd response       *)
(* stream, and the appendFile calls on the shared log file).               *)
(*                                                                         *)
(* Representation of JavaScript values                                     *)
(*   - an optional value (possibly undefined / absent key) is a sequence   *)
(*     of length 0 (None) or 1 (Some(v));                                  *)
(*   - a string is a sequence of one-character strings;                    *)
(*   - bytes on the wire are a sequence of wire symbols (see Sym).         *)
(***************************************************************************)
EXTENDS Integers, Sequences, FiniteSets, TLC

VARIABLES
    opts,       \* the plugin options destructured in register (l.50-57)
    now,        \* Date.now()
    pathname,   \* req.pathname, per request
    inbound,    \* req.sessionId, req.preset and req.body, per request
    offer,      \* what the upstream collaborator may hand to onSend: the
                \* payloads, and the contents of a payload that is a stream
    startTime,  \* req.requestStartTime
    logEntry,   \* req.logEntry
    hooks,      \* per request: the hook invocations that are over (their
                \* number, and the outcome of the last one)
    running,    \* per request: the hook invocation suspended at an await
    task,       \* per request: the background task of the streaming branch
    source,     \* per request: the upstream ReadableStream (payload)
    produced,   \* per request: the chunks the upstream stream has yielded
    branch,     \* per request: the queues of the two branches of payload.tee()
    caller,     \* per request: what the reader of the returned stream saw
    pending,    \* appendFile calls in flight
    logFile,    \* the lines of the log file, in order
    opLog       \* fastify.log.error lines

vars == << opts, now, pathname, inbound, offer, startTime, logEntry, hooks,
           running, task, source, produced, branch, caller, pending,
           logFile, opLog >>

-----------------------------------------------------------------------------
(* Bounds of the model *)

\* longest message text, in characters
MaxLen == 3
\* largest maxMessageLength option
MaxN == 2
\* hook invocations (onSend + onError) per request
MaxHooks == 2
\* chunks of a response stream of the lifecycle specification
MaxChunks == 2
\* frames of a byte stream of the accumulation specification
MaxFrames == 2
\* largest Date.now() of the model
MaxTime == 2
\* places at which a byte stream of the accumulation specification is cut
MaxCuts == 1

-----------------------------------------------------------------------------
(* Optional values, strings *)

None == << >>
Some(v) == << v >>
IsSome(o) == Len(o) = 1
Val(o) == o[1]

\* JavaScript truthiness of an optional string: defined and non-empty
TruthyText(o) == IsSome(o) /\ Len(Val(o)) > 0

RECURSIVE Concat(_)
Concat(ss) == IF ss = << >> THEN << >> ELSE Head(ss) \o Concat(Tail(ss))

IsPrefix(s, t) == Len(s) <= Len(t) /\ SubSeq(t, 1, Len(s)) = s

DigitChars == << "0", "1", "2", "3", "4", "5", "6", "7", "8", "9" >>

\* `${n}` of a template literal, n >= 0
RECURSIVE Digits(_)
Digits(n) == IF n < 10 THEN << DigitChars[n + 1] >>
             ELSE Digits(n \div 10) \o << DigitChars[(n % 10) + 1] >>

MarkerHead == << ".", ".", ".", " ", "[", "t", "r", "u", "n", "c", "a", "t",
                 "e", "d", ",", " " >>
MarkerTail == << " ", "m", "o", "r", "e", " ", "c", "h", "a", "r", "s", "]" >>

-----------------------------------------------------------------------------
(* Sanitizer: truncate, sanitizeMessages *)

\* a plausible slip: the marker counts the whole string
truncate_lenbug(str, maxLength) ==
    IF maxLength = 0 \/ Len(str) <= maxLength THEN str
    ELSE SubSeq(str, 1, maxLength) \o MarkerHead \o Digits(Len(str))
         \o MarkerTail

truncate(str, maxLength) ==
    IF maxLength = 0 \/ Len(str) <= maxLength THEN str
    ELSE SubSeq(str, 1, maxLength) \o MarkerHead
         \o Digits(Len(str) - maxLength) \o MarkerTail

\* the placeholder string (a string among objects: tagged as in contents)
ImageOmitted == [kind |-> "string", text |-> "[IMAGE_DATA_OMITTED]"]

\* the mapping of one block of an array content (l.99-116)
sanitizeItem(item, o) ==
    IF item.type = "text" /\ Len(item.text) > 0 THEN
        [type |-> "text",
         text |-> IF o.maxMessageLength > 0
                  THEN truncate(item.text, o.maxMessageLength)
                  ELSE item.text]
    ELSE IF item.type = "image" THEN
        [type |-> "image", source |-> ImageOmitted]
    ELSE IF item.type = "tool_use" THEN
        [type |-> "tool_use", name |-> item.name, id |-> item.id]
    ELSE IF item.type = "tool_result" THEN
        [type |-> "tool_result", tool_use_id |-> item.tool_use_id]
    ELSE item

\* one message: content is [kind |-> "string", text], [kind |-> "array",
\* items] or [kind |-> "none"] (neither a string nor an array)
sanitizeMessage(msg, o) ==
    IF msg.content.kind = "string" THEN
        [role |-> msg.role,
         content |-> [kind |-> "string",
                      text |-> IF o.maxMessageLength > 0
                               THEN truncate(msg.content.text,
                                             o.maxMessageLength)
                               ELSE msg.content.text]]
    ELSE IF msg.content.kind = "array" THEN
        [role |-> msg.role,
         content |-> [kind |-> "array",
                      items |-> [i \in DOMAIN msg.content.items |->
                                   sanitizeItem(msg.content.items[i], o)]]]
    ELSE [role |-> msg.role, content |-> [kind |-> "none"]]

sanitizeMessages(messages, o) ==
    IF ~o.includeMessages THEN << >>
    ELSE [i \in DOMAIN messages |-> sanitizeMessage(messages[i], o)]

-----------------------------------------------------------------------------
(* The wire format of a streamed response.                                 *)
(* A wire symbol stands for a run of characters that the loop of l.187-235 *)
(* tells apart: the literal prefix 'data: ' with the opening part of the   *)
(* text of a JSON object (which carries the object), the closing part of   *)
(* that text, a line feed, and any other characters.  JSON.parse accepts   *)
(* exactly an opening part followed by its closing part: a proper prefix   *)
(* or suffix of an object's text is not JSON.                              *)

NoEvent == [type |-> "none"]

SymData(e) == [c |-> "data", ev |-> e]
SymClose == [c |-> "close", ev |-> NoEvent]
SymNL == [c |-> "nl", ev |-> NoEvent]
SymOther == [c |-> "other", ev |-> NoEvent]

\* the parsed data objects (the fields the loop reads)
Event(type, message, delta, content_block, usage) ==
    [type |-> type, message |-> message, delta |-> delta,
     content_block |-> content_block, usage |-> usage]

MessageStart(id, model) ==
    Event("message_start", Some([id |-> id, model |-> model]), None, None,
          None)
TextDelta(text) ==
    Event("content_block_delta", None,
          Some([text |-> text, stop_reason |-> None]), None, None)
BlockStart(type, name, id) ==
    Event("content_block_start", None, None,
          Some([type |-> type, name |-> name, id |-> id]), None)
MessageDelta(stop_reason, usage) ==
    Event("message_delta", None,
          Some([text |-> None, stop_reason |-> stop_reason]), None, usage)
Ping == Event("ping", None, None, None, None)

\* a whole frame: one line 'data: {...}' and its line feed
Frame(e) == << SymData(e), SymClose, SymNL >>
\* a frame whose body is cut short: invalid JSON after the prefix
TruncatedFrame(e) == << SymData(e), SymNL >>
\* a line that is no data frame ('event: ...')
EventLine == << SymOther, SymNL >>

\* chunk.split('\n'): always one more line than line feeds
RECURSIVE SplitFrom(_, _)
SplitFrom(syms, cur) ==
    IF syms = << >> THEN << cur >>
    ELSE IF Head(syms).c = "nl" THEN << cur >> \o SplitFrom(Tail(syms), << >>)
    ELSE SplitFrom(Tail(syms), Append(cur, Head(syms)))

split(syms) == SplitFrom(syms, << >>)

\* line.startsWith('data: ')
startsWithData(line) == Len(line) >= 1 /\ line[1].c = "data"

\* JSON.parse(line.substring(6)): None when it throws
JSONparse(line) ==
    IF Len(line) = 2 /\ line[1].c = "data" /\ line[2].c = "close"
    THEN Some(line[1].ev) ELSE None

-----------------------------------------------------------------------------
(* The accumulation of l.194-235.  acc holds the task's locals and         *)
(* content, which is logEntry.response.content (mutated in place, l.212).  *)

InitialAcc(content) ==
    [fullText |-> << >>, lastUsage |-> None, lastStopReason |-> None,
     messageId |-> None, model |-> None, content |-> content]

\* l.200-203
applyMessageStart(acc, data) ==
    IF data.type = "message_start" THEN
        [acc EXCEPT
           !.messageId = IF IsSome(data.message) THEN Val(data.message).id
                         ELSE None,
           !.model = IF IsSome(data.message) THEN Val(data.message).model
                     ELSE None]
    ELSE acc

\* l.206-208
applyTextDelta(acc, data) ==
    IF /\ data.type = "content_block_delta"
       /\ IsSome(data.delta)
       /\ TruthyText(Val(data.delta).text)
    THEN [acc EXCEPT !.fullText = @ \o Val(Val(data.delta).text)]
    ELSE acc

\* l.211-220
applyToolUse(acc, data) ==
    IF /\ data.type = "content_block_start"
       /\ IsSome(data.content_block)
       /\ Val(data.content_block).type = "tool_use"
    THEN [acc EXCEPT
            !.content = Some(Append(IF IsSome(@) THEN Val(@) ELSE << >>,
                                    [type |-> "tool_use",
                                     name |-> Val(data.content_block).name,
                                     id |-> Val(data.content_block).id]))]
    ELSE acc

\* a plausible slip: usage and stop reason are kept once they are set
applyMessageDelta_first(acc, data) ==
    IF data.type = "message_delta" THEN
        [acc EXCEPT
           !.lastUsage = IF IsSome(data.usage) /\ ~IsSome(@)
                         THEN data.usage ELSE @,
           !.lastStopReason =
               IF /\ IsSome(data.delta)
                  /\ IsSome(Val(data.delta).stop_reason)
                  /\ ~IsSome(@)
               THEN Val(data.delta).stop_reason ELSE @]
    ELSE acc

\* l.223-230
applyMessageDelta(acc, data) ==
    IF data.type = "message_delta" THEN
        [acc EXCEPT
           !.lastUsage = IF IsSome(data.usage) THEN data.usage ELSE @,
           !.lastStopReason =
               IF IsSome(data.delta) /\ IsSome(Val(data.delta).stop_reason)
               THEN Val(data.delta).stop_reason ELSE @]
    ELSE acc

applyData(acc, data) ==
    applyMessageDelta(
        applyToolUse(applyTextDelta(applyMessageStart(acc, data), data),
                     data),
        data)

\* one iteration of the for loop of l.194-235
applyLine(acc, line) ==
    IF startsWithData(line) /\ IsSome(JSONparse(line))
    THEN applyData(acc, Val(JSONparse(line)))
    ELSE acc

RECURSIVE applyLines(_, _)
applyLines(acc, lines) ==
    IF lines = << >> THEN acc
    ELSE applyLines(applyLine(acc, Head(lines)), Tail(lines))

\* the body of the while loop for one chunk that decodes (l.191-235)
processChunk(acc, syms) == applyLines(acc, split(syms))

RECURSIVE processChunks(_, _)
processChunks(acc, chunks) ==
    IF chunks = << >> THEN acc
    ELSE processChunks(processChunk(acc, Head(chunks)), Tail(chunks))

-----------------------------------------------------------------------------
(* The log entry and its serialization *)

EmptyResponse ==
    [id |-> None, model |-> None, role |-> None, content |-> None,
     fullText |-> None, stop_reason |-> None, stop_sequence |-> None,
     usage |-> None]

ResponseKeys == DOMAIN EmptyResponse

\* JSON.stringify of an object whose values may be undefined: the keys with
\* an undefined value are left out
Present(obj) ==
    [k \in {x \in DOMAIN obj : IsSome(obj[x])} |-> Val(obj[k])]

\* JSON.stringify(logEntry): the text appended is fixed when the call is made
JSONstringify(entry) ==
    [timestamp |-> entry.timestamp,
     sessionId |-> entry.sessionId,
     request |-> Present(entry.request),
     response |-> Present(entry.response),
     rest |-> Present([preset |-> entry.preset,
                       duration_ms |-> entry.duration_ms,
                       error |-> entry.error])]

\* req.pathname?.endsWith('/v1/messages'); a path is a sequence of segments
Endpoint == << "v1", "messages" >>

\* a plausible slip: includes() instead of endsWith()
endsWithEndpoint_includes(path) ==
    /\ IsSome(path)
    /\ \E i \in 1..Len(Val(path)) :
          /\ i + Len(Endpoint) - 1 <= Len(Val(path))
          /\ SubSeq(Val(path), i, i + Len(Endpoint) - 1) = Endpoint

endsWithEndpoint(path) ==
    /\ IsSome(path)
    /\ Len(Val(path)) >= Len(Endpoint)
    /\ SubSeq(Val(path), Len(Val(path)) - Len(Endpoint) + 1, Len(Val(path)))
          = Endpoint

OptGet(o, k) == IF IsSome(o) THEN Val(o)[k] ELSE None

\* truthiness of req.body?.system: defined and not the empty string
Truthy(system) ==
    /\ IsSome(system)
    /\ ~(Val(system).kind = "string" /\ Val(system).text = << >>)

\* the entry built by the preHandler hook (l.128-159); in is the request
newLogEntry(in, o, t) ==
    LET b == in.body
        system == OptGet(b, "system")
        tools == OptGet(b, "tools")
        messages == OptGet(b, "messages")
    IN [timestamp |-> t,
        sessionId |-> IF IsSome(in.sessionId) THEN Val(in.sessionId)
                      ELSE "unknown",
        preset |-> in.preset,
        request |->
          [model |-> OptGet(b, "model"),
           max_tokens |-> OptGet(b, "max_tokens"),
           temperature |-> OptGet(b, "temperature"),
           stream |-> OptGet(b, "stream"),
           messages |-> Some(sanitizeMessages(
                            IF IsSome(messages) THEN Val(messages)
                            ELSE << >>, o)),
           system |->
             IF o.includeSystemPrompt /\ Truthy(system) THEN
                 IF Val(system).kind = "string" THEN
                     Some([kind |-> "string",
                           text |-> IF o.maxMessageLength > 0
                                    THEN truncate(Val(system).text,
                                                  o.maxMessageLength * 2)
                                    ELSE Val(system).text])
                 ELSE system
             ELSE None,
           tools |->
             IF o.includeTools /\ IsSome(tools) THEN
                 Some([i \in DOMAIN Val(tools) |->
                         [name |-> Val(tools)[i].name,
                          description |-> Val(tools)[i].description]])
             ELSE None],
        response |-> EmptyResponse,
        duration_ms |-> None,
        error |-> None]

-----------------------------------------------------------------------------
(* State of one request *)

Reqs == DOMAIN pathname

NoTask ==
    [pc |-> "none", fullText |-> << >>, lastUsage |-> None,
     lastStopReason |-> None, messageId |-> None, model |-> None]

NoSource == [state |-> "none", rest |-> << >>, end |-> "close"]
NoBranches == [logging |-> << >>, original |-> << >>, cancelled |-> FALSE]
NoCaller == [state |-> "none", got |-> << >>]

\* the branch of payload.tee() the task reads (l.174, l.178) ...
\* a plausible slip: the reader is taken on the branch that is returned
readerBranch_original == "original"

readerBranch == "logging"

\* ... and the one onSend returns (l.256)
returnedBranch == "original"

\* hook invocations of a request that are over, and the calls it still may get
NoHooks == [pre |-> FALSE, calls |-> 0, last |-> [hook |-> "none"]]
Idle(r) == running[r] = None
MayCall(r) == Idle(r) /\ hooks[r].calls < MaxHooks
\* h after one more invocation is over
Over(h, outcome) ==
    IF outcome.hook = "preHandler" THEN [h EXCEPT !.pre = TRUE]
    ELSE [h EXCEPT !.calls = @ + 1, !.last = outcome]

Returned(hook, payload, value) ==
    [hook |-> hook, payload |-> payload, result |-> "returned",
     value |-> value]
Raised(hook, payload, cause) ==
    [hook |-> hook, payload |-> payload, result |-> "raised",
     value |-> cause]

NoPayload == [kind |-> "undefined"]

-----------------------------------------------------------------------------
(* The hooks *)

\* preHandler (l.124-163): the first hook of a request, at most once
PreHandler(r) ==
    /\ hooks[r] = NoHooks
    /\ Idle(r)
    /\ IF endsWithEndpoint(pathname[r])
       THEN /\ startTime' = [startTime EXCEPT ![r] = Some(now)]
            /\ logEntry' = [logEntry EXCEPT
                              ![r] = Some(newLogEntry(inbound[r], opts, now))]
       ELSE UNCHANGED << startTime, logEntry >>
    /\ hooks' = [hooks EXCEPT
                   ![r] = Over(@, Returned("preHandler", NoPayload,
                                             NoPayload))]
    /\ UNCHANGED << opts, now, pathname, inbound, offer, running, task,
                    source, produced, branch, caller, pending, logFile,
                    opLog >>

\* logEntry.duration_ms = Date.now() - req.requestStartTime (l.170, l.298)
withDuration(entry, r) ==
    [entry EXCEPT !.duration_ms = Some(now - Val(startTime[r]))]

\* the non-streaming branch for a payload object (l.261-285)
\* fullText: the text blocks joined with '\n', set only when non-empty
\* a plausible slip: join('') instead of join('\n')
joinTexts_concat(items) == Concat(items)

RECURSIVE joinTexts(_)
joinTexts(items) ==
    IF items = << >> THEN << >>
    ELSE IF Len(items) = 1 THEN Head(items)
    ELSE Head(items) \o << "\n" >> \o joinTexts(Tail(items))

textContent(content) ==
    joinTexts([i \in DOMAIN SelectSeq(content, LAMBDA b : b.type = "text")
                 |-> SelectSeq(content, LAMBDA b : b.type = "text")[i].text])

\* a plausible slip: the success fields copied without the else of l.265
withPayload_noelse(entry, p) ==
    [entry EXCEPT
       !.error = IF IsSome(p.error)
                 THEN Some([type |-> Val(p.error).type,
                            message |-> Val(p.error).message])
                 ELSE @,
       !.response =
          [id |-> p.id, model |-> p.model, role |-> p.role,
           content |-> p.content,
           fullText |->
              IF IsSome(p.content) /\ textContent(Val(p.content)) # << >>
              THEN Some(textContent(Val(p.content)))
              ELSE entry.response.fullText,
           stop_reason |-> p.stop_reason,
           stop_sequence |-> p.stop_sequence,
           usage |-> p.usage]]

withPayload(entry, p) ==
    IF IsSome(p.error) THEN
        [entry EXCEPT !.error = Some([type |-> Val(p.error).type,
                                      message |-> Val(p.error).message])]
    ELSE
        [entry EXCEPT
           !.response =
              [id |-> p.id, model |-> p.model, role |-> p.role,
               content |-> p.content,
               fullText |->
                  IF IsSome(p.content) /\ textContent(Val(p.content)) # << >>
                  THEN Some(textContent(Val(p.content)))
                  ELSE entry.response.fullText,
               stop_reason |-> p.stop_reason,
               stop_sequence |-> p.stop_sequence,
               usage |-> p.usage]]

\* at: the time of the call (not part of the data written)
AppendCall(r, from, entry) ==
    [req |-> r, from |-> from, line |-> JSONstringify(entry), at |-> now]

\* onSend (l.166-292), up to its first await or its return
\* p is the payload; a payload that is a stream yields one of offer.streams
OnSend(r, p) ==
    /\ MayCall(r)
    /\ p \in offer.payloads
    /\ p.kind = "stream" => source[r].state = "none"
    /\ IF logEntry[r] = None THEN
           \* l.167
           /\ hooks' = [hooks EXCEPT ![r] = Over(@, Returned("onSend", p, p))]
           /\ UNCHANGED << logEntry, running, task, source, branch, caller,
                           pending >>
       ELSE IF p.kind = "stream" THEN
           \* l.173-257: tee, start the task (it runs to its first read),
           \* return the other branch
           /\ logEntry' = [logEntry EXCEPT
                             ![r] = Some(withDuration(Val(@), r))]
           /\ \E st \in offer.streams :
                 source' = [source EXCEPT
                              ![r] = [state |-> "open", rest |-> st.chunks,
                                      end |-> st.end]]
           /\ branch' = [branch EXCEPT ![r] = NoBranches]
           /\ task' = [task EXCEPT ![r] = [NoTask EXCEPT !.pc = "reading"]]
           /\ caller' = [caller EXCEPT ![r] = [NoCaller EXCEPT
                                                 !.state = "reading"]]
           /\ hooks' = [hooks EXCEPT
                          ![r] = Over(@, Returned("onSend", p,
                                     [kind |-> "branch",
                                      which |-> returnedBranch]))]
           /\ UNCHANGED << running, pending >>
       ELSE IF p.kind = "null" THEN
           \* typeof null === 'object': payload.error throws a TypeError
           /\ logEntry' = [logEntry EXCEPT
                             ![r] = Some(withDuration(Val(@), r))]
           /\ hooks' = [hooks EXCEPT
                          ![r] = Over(@, Raised("onSend", p, "TypeError"))]
           /\ UNCHANGED << running, task, source, branch, caller, pending >>
       ELSE IF p.kind = "object" THEN
           \* l.260-288, suspended at await appendFile
           /\ logEntry' = [logEntry EXCEPT
                             ![r] = Some(withPayload(withDuration(Val(@), r),
                                                     p))]
           /\ pending' = pending \cup
                 {AppendCall(r, "onSend",
                             withPayload(withDuration(Val(logEntry[r]), r),
                                         p))}
           /\ running' = [running EXCEPT
                            ![r] = Some([hook |-> "onSend", payload |-> p])]
           /\ UNCHANGED << hooks, task, source, branch, caller >>
       ELSE
           \* a string or undefined: l.291
           /\ logEntry' = [logEntry EXCEPT
                             ![r] = Some(withDuration(Val(@), r))]
           /\ hooks' = [hooks EXCEPT ![r] = Over(@, Returned("onSend", p, p))]
           /\ UNCHANGED << running, task, source, branch, caller, pending >>
    /\ UNCHANGED << opts, now, pathname, inbound, offer, startTime, produced,
                    logFile, opLog >>

\* the error projection of l.299-303
withError(entry, error) ==
    [entry EXCEPT !.error = Some([message |-> error.message,
                                  stack |-> error.stack,
                                  code |-> error.code])]

\* onError (l.295-307), up to its await or its return
OnError(r, error) ==
    /\ MayCall(r)
    /\ IF logEntry[r] = None THEN
           /\ hooks' = [hooks EXCEPT
                          ![r] = Over(@, Returned("onError", error,
                                                    NoPayload))]
           /\ UNCHANGED << logEntry, running, pending >>
       ELSE
           /\ logEntry' = [logEntry EXCEPT
                             ![r] = Some(withError(withDuration(Val(@), r),
                                                   error))]
           /\ pending' = pending \cup
                 {AppendCall(r, "onError",
                             withError(withDuration(Val(logEntry[r]), r),
                                       error))}
           /\ running' = [running EXCEPT
                            ![r] = Some([hook |-> "onError",
                                         payload |-> error])]
           /\ UNCHANGED hooks
    /\ UNCHANGED << opts, now, pathname, inbound, offer, startTime, task,
                    source, produced, branch, caller, logFile, opLog >>

-----------------------------------------------------------------------------
(* The response stream: payload.tee() and its two readers *)

\* the source yields its next chunk: tee enqueues it on both branches (on
\* the original branch unless its reader cancelled it)
SourcePull(r) ==
    /\ source[r].state = "open"
    /\ source[r].rest # << >>
    /\ LET chunk == Head(source[r].rest) IN
         /\ produced' = [produced EXCEPT ![r] = Append(@, chunk)]
         /\ branch' = [branch EXCEPT
                         ![r].logging = Append(@, chunk),
                         ![r].original = IF branch[r].cancelled THEN @
                                         ELSE Append(@, chunk)]
    /\ source' = [source EXCEPT ![r].rest = Tail(@)]
    /\ UNCHANGED << opts, now, pathname, inbound, offer, startTime, logEntry,
                    hooks, running, task, caller, pending, logFile, opLog >>

\* the source ends: it closes (the branches close once drained), or it
\* errors (both branches error and drop what they had queued)
SourceEnd(r) ==
    /\ source[r].state = "open"
    /\ source[r].rest = << >>
    /\ IF source[r].end = "close"
       THEN /\ source' = [source EXCEPT ![r].state = "closed"]
            /\ UNCHANGED branch
       ELSE /\ source' = [source EXCEPT ![r].state = "errored"]
            /\ branch' = [branch EXCEPT ![r].logging = << >>,
                                        ![r].original = << >>]
    /\ UNCHANGED << opts, now, pathname, inbound, offer, startTime, logEntry,
                    hooks, running, task, produced, caller, pending, logFile,
                    opLog >>

\* the entry the task appends (l.239-246)
withSummary(entry, t) ==
    [entry EXCEPT
       !.response.id = t.messageId,
       !.response.model = t.model,
       !.response.fullText = Some(t.fullText),
       !.response.stop_reason = t.lastStopReason,
       !.response.usage = IF IsSome(t.lastUsage) THEN t.lastUsage ELSE @]

\* a plausible slip: fullText declared once for the plugin (outside the
\* hook) instead of once per task
accOf_shared(r) ==
    [fullText |-> task[CHOOSE q \in Reqs : TRUE].fullText,
     lastUsage |-> task[r].lastUsage,
     lastStopReason |-> task[r].lastStopReason,
     messageId |-> task[r].messageId, model |-> task[r].model,
     content |-> Val(logEntry[r]).response.content]

\* the task's view of its locals and of logEntry.response.content
accOf(r) ==
    [fullText |-> task[r].fullText, lastUsage |-> task[r].lastUsage,
     lastStopReason |-> task[r].lastStopReason,
     messageId |-> task[r].messageId, model |-> task[r].model,
     content |-> Val(logEntry[r]).response.content]

\* the background task resumes from await reader.read() (l.188)
TaskRead(r) ==
    /\ task[r].pc = "reading"
    /\ LET q == branch[r][readerBranch] IN
       IF q # << >> THEN
           /\ branch' = [branch EXCEPT ![r][readerBranch] = Tail(q)]
           /\ IF Head(q).bytes THEN
                  \* l.191-235
                  LET acc == processChunk(accOf(r), Head(q).syms) IN
                    /\ task' = [task EXCEPT
                                  ![r] = [pc |-> "reading",
                                          fullText |-> acc.fullText,
                                          lastUsage |-> acc.lastUsage,
                                          lastStopReason |->
                                              acc.lastStopReason,
                                          messageId |-> acc.messageId,
                                          model |-> acc.model]]
                    /\ logEntry' = [logEntry EXCEPT
                                      ![r] = Some([Val(@) EXCEPT
                                                !.response.content =
                                                    acc.content])]
                    /\ UNCHANGED << pending, opLog >>
              ELSE
                  \* decoder.decode throws on a chunk that is no byte
                  \* buffer: caught at l.251
                  /\ task' = [task EXCEPT ![r].pc = "done"]
                  /\ opLog' = opLog \cup {[req |-> r, cause |-> "decode"]}
                  /\ UNCHANGED << logEntry, pending >>
       ELSE IF source[r].state = "closed" THEN
           \* done: l.239-249, suspended at await appendFile
           /\ logEntry' = [logEntry EXCEPT
                             ![r] = Some(withSummary(Val(@), task[r]))]
           /\ pending' = pending \cup
                 {AppendCall(r, "task",
                             withSummary(Val(logEntry[r]), task[r]))}
           /\ task' = [task EXCEPT ![r].pc = "appending"]
           /\ UNCHANGED << branch, opLog >>
       ELSE
           \* read() rejects: caught at l.251
           /\ source[r].state = "errored"
           /\ task' = [task EXCEPT ![r].pc = "done"]
           /\ opLog' = opLog \cup {[req |-> r, cause |-> "read"]}
           /\ UNCHANGED << logEntry, pending, branch >>
    /\ UNCHANGED << opts, now, pathname, inbound, offer, startTime, hooks,
                    running, source, produced, caller, logFile >>

\* the reader of the stream onSend returned takes what its branch has
CallerRead(r) ==
    /\ caller[r].state = "reading"
    /\ LET q == branch[r][returnedBranch] IN
       IF q # << >> THEN
           /\ caller' = [caller EXCEPT ![r].got = Append(@, Head(q))]
           /\ branch' = [branch EXCEPT ![r][returnedBranch] = Tail(q)]
       ELSE
           /\ source[r].state \in {"closed", "errored"}
           /\ caller' = [caller EXCEPT
                           ![r].state = IF source[r].state = "closed"
                                        THEN "done" ELSE "error"]
           /\ UNCHANGED branch
    /\ UNCHANGED << opts, now, pathname, inbound, offer, startTime, logEntry,
                    hooks, running, task, source, produced, pending, logFile,
                    opLog >>

\* the caller aborts: its branch is cancelled; tee cancels the source only
\* when both branches are cancelled, so the logging branch goes on
CallerCancel(r) ==
    /\ caller[r].state = "reading"
    /\ caller' = [caller EXCEPT ![r].state = "cancelled"]
    /\ branch' = [branch EXCEPT ![r].original = << >>,
                                ![r].cancelled = TRUE]
    /\ UNCHANGED << opts, now, pathname, inbound, offer, startTime, logEntry,
                    hooks, running, task, source, produced, pending, logFile,
                    opLog >>

-----------------------------------------------------------------------------
(* appendFile *)

\* an appendFile call settles: it wrote its line (ok) or it rejects
AppendSettle(a, ok) ==
    /\ a \in pending
    /\ pending' = pending \ {a}
    /\ logFile' = IF ok THEN Append(logFile, a) ELSE logFile
    /\ IF a.from = "task" THEN
           \* l.249-253: a rejection is caught and reported
           /\ task' = [task EXCEPT ![a.req].pc = "done"]
           /\ opLog' = IF ok THEN opLog
                       ELSE opLog \cup {[req |-> a.req, cause |-> "append"]}
           /\ UNCHANGED << hooks, running >>
       ELSE
           \* l.288-291, l.305: the hook returns, or the rejection leaves it
           /\ running' = [running EXCEPT ![a.req] = None]
           /\ hooks' = [hooks EXCEPT
                 ![a.req] = Over(@,
                     IF ~ok
                     THEN Raised(a.from, Val(running[a.req]).payload,
                                 "appendFile")
                     ELSE IF a.from = "onSend"
                     THEN Returned(a.from, Val(running[a.req]).payload,
                                   Val(running[a.req]).payload)
                     ELSE Returned(a.from, Val(running[a.req]).payload,
                                   NoPayload))]
           /\ UNCHANGED << task, opLog >>
    /\ UNCHANGED << opts, now, pathname, inbound, offer, startTime, logEntry,
                    source, produced, branch, caller >>

\* appendFile hands its data to the file in one write or in several (the
\* library loops until every byte is written, awaiting each write), and the
\* plugin does not serialize its calls: here a call writes a first part of
\* its line and is suspended before the rest
Piece(a, part) ==
    [req |-> a.req, from |-> a.from, line |-> a.line, at |-> a.at,
     part |-> part]
IsPiece(x) == "part" \in DOMAIN x

AppendWrite(a) ==
    /\ a \in pending
    /\ ~IsPiece(a)
    /\ logFile' = Append(logFile, Piece(a, "head"))
    /\ pending' = (pending \ {a}) \cup {Piece(a, "tail")}
    /\ UNCHANGED << opts, now, pathname, inbound, offer, startTime, logEntry,
                    hooks, running, task, source, produced, branch, caller,
                    opLog >>

\* time passes
Tick ==
    /\ now < MaxTime
    /\ now' = now + 1
    /\ UNCHANGED << opts, pathname, inbound, offer, startTime, logEntry,
                    hooks, running, task, source, produced, branch, caller,
                    pending, logFile, opLog >>

-----------------------------------------------------------------------------
(* Inputs *)

DefaultOpts ==
    [includeSystemPrompt |-> TRUE, includeMessages |-> TRUE,
     includeTools |-> FALSE, maxMessageLength |-> 0]

StringContent(text) == [kind |-> "string", text |-> text]
ArrayContent(items) == [kind |-> "array", items |-> items]

Body(messages, system, tools) ==
    [model |-> Some("m1"), max_tokens |-> Some(64), temperature |-> None,
     stream |-> None, messages |-> messages, system |-> system,
     tools |-> tools]

Inbound(b) == [sessionId |-> None, preset |-> None, body |-> b]

\* {model: "m1", messages: [{role: "user", content: "hi"}]}
ExampleInbound ==
    Inbound(Some(Body(Some(<< [role |-> "user",
                               content |-> StringContent(<< "h", "i" >>)] >>),
                      None, None)))

GenerationPath == Some(<< "v1", "messages" >>)
Paths ==
    { GenerationPath,
      Some(<< "v1", "messages", "count_tokens" >>),
      Some(<< "health" >>),
      None }

\* frames
StartFrame == Frame(MessageStart(Some("x1"), Some("m1")))
RestartFrame == Frame(MessageStart(Some("x2"), None))
DeltaA == Frame(TextDelta(Some(<< "a" >>)))
DeltaB == Frame(TextDelta(Some(<< "b" >>)))
ToolFrame == Frame(BlockStart("tool_use", Some("search"), Some("tu1")))
Usage1 == [input_tokens |-> 5, output_tokens |-> 2]
Usage2 == [input_tokens |-> 5, output_tokens |-> 3,
           cache_read_input_tokens |-> 1]
StopFrame == Frame(MessageDelta(Some("end_turn"), Some(Usage1)))
UsageFrame == Frame(MessageDelta(None, Some(Usage2)))
BadFrame == TruncatedFrame(TextDelta(Some(<< "a" >>)))

Bytes(syms) == [bytes |-> TRUE, syms |-> syms]
\* a chunk that is a string, not a byte buffer
NotBytes == [bytes |-> FALSE, syms |-> << >>]

Stream(chunks, end) == [chunks |-> chunks, end |-> end]

\* the sequences over S of length at most n
RECURSIVE SeqsUpTo(_, _)
SeqsUpTo(S, n) ==
    IF n = 0 THEN { << >> }
    ELSE SeqsUpTo(S, n - 1) \cup
         { Append(q, x) : q \in { t \in SeqsUpTo(S, n - 1) : Len(t) = n - 1 },
                          x \in S }

\* the streams of the lifecycle specification: at most one chunk
LifeChunks == { Bytes(StartFrame \o DeltaA), Bytes(ToolFrame), NotBytes }
LifeStreams ==
    { Stream(cs, e) : cs \in {<< >>} \cup {<< c >> : c \in LifeChunks},
                      e \in {"close", "error"} }

\* the streams of the delivery specification
DeliveryChunks ==
    { Bytes(StartFrame \o DeltaA), Bytes(ToolFrame), Bytes(BadFrame),
      NotBytes }
DeliveryStreams ==
    { Stream(cs, e) : cs \in SeqsUpTo(DeliveryChunks, MaxChunks),
                      e \in {"close", "error"} }

\* the streams of the accumulation specification: the frames of a byte
\* stream, and the places at which it is cut into chunks
FoldFrames ==
    { StartFrame, RestartFrame, DeltaA, DeltaB, StopFrame, UsageFrame,
      BadFrame }

RECURSIVE CutFrom(_, _, _, _)
CutFrom(syms, cuts, i, cur) ==
    IF i > Len(syms) THEN (IF cur = << >> THEN << >> ELSE << Bytes(cur) >>)
    ELSE IF i \in cuts
         THEN << Bytes(Append(cur, syms[i])) >>
              \o CutFrom(syms, cuts, i + 1, << >>)
         ELSE CutFrom(syms, cuts, i + 1, Append(cur, syms[i]))

\* syms cut after each position of cuts
Cut(syms, cuts) == CutFrom(syms, cuts, 1, << >>)

CutSets(syms) ==
    { c \in SUBSET (1..(Len(syms) - 1)) : Cardinality(c) <= MaxCuts }

FoldBytes == { Concat(fs) : fs \in SeqsUpTo(FoldFrames, MaxFrames) }
FoldStreams ==
    UNION { { Stream(Cut(b, c), "close") : c \in CutSets(b) } :
            b \in FoldBytes }

Object(error, id, content, stop_reason, usage) ==
    [kind |-> "object", error |-> error, id |-> id,
     model |-> IF IsSome(id) THEN Some("m1") ELSE None,
     role |-> IF IsSome(id) THEN Some("assistant") ELSE None,
     content |-> content, stop_reason |-> stop_reason,
     stop_sequence |-> None, usage |-> usage]

MessageObject ==
    Object(None, Some("x1"),
           Some(<< [type |-> "text", text |-> << "a" >>],
                   [type |-> "tool_use", name |-> "search", id |-> "tu1"],
                   [type |-> "text", text |-> << "b" >>] >>),
           Some("end_turn"), Some(Usage1))

ErrorObject ==
    Object(Some([type |-> "overloaded_error", message |-> "busy"]),
           None, None, None, None)

StreamPayload == [kind |-> "stream"]
LifePayloads ==
    { StreamPayload, MessageObject, ErrorObject, [kind |-> "string"],
      [kind |-> "null"], [kind |-> "undefined"] }

UpstreamError == [message |-> "boom", stack |-> "at handler", code |-> None]
Errors == { UpstreamError }

-----------------------------------------------------------------------------
(* The lifecycle of one request *)

InitOf(rs) ==
    /\ now = 0
    /\ startTime = [r \in rs |-> None]
    /\ logEntry = [r \in rs |-> None]
    /\ hooks = [r \in rs |-> NoHooks]
    /\ running = [r \in rs |-> None]
    /\ task = [r \in rs |-> NoTask]
    /\ source = [r \in rs |-> NoSource]
    /\ produced = [r \in rs |-> << >>]
    /\ branch = [r \in rs |-> NoBranches]
    /\ caller = [r \in rs |-> NoCaller]
    /\ pending = { }
    /\ logFile = << >>
    /\ opLog = { }

Init ==
    /\ opts = DefaultOpts
    /\ pathname \in [{1} -> Paths]
    /\ inbound = [r \in {1} |-> ExampleInbound]
    /\ offer = [payloads |-> LifePayloads, streams |-> LifeStreams]
    /\ InitOf({1})

Next ==
    \/ \E r \in Reqs : PreHandler(r)
    \/ \E r \in Reqs, p \in offer.payloads : OnSend(r, p)
    \/ \E r \in Reqs, e \in Errors : OnError(r, e)
    \/ \E r \in Reqs : SourcePull(r)
    \/ \E r \in Reqs : SourceEnd(r)
    \/ \E r \in Reqs : TaskRead(r)
    \/ \E r \in Reqs : CallerRead(r)
    \/ \E r \in Reqs : CallerCancel(r)
    \/ \E a \in pending, ok \in BOOLEAN : AppendSettle(a, ok)

Spec == Init /\ [][Next]_vars

-----------------------------------------------------------------------------
(* Delivery of a streamed response: one generation request whose payload   *)
(* is a stream                                                             *)

InitStream ==
    /\ opts = DefaultOpts
    /\ pathname = [r \in {1} |-> GenerationPath]
    /\ inbound = [r \in {1} |-> ExampleInbound]
    /\ offer = [payloads |-> {StreamPayload}, streams |-> DeliveryStreams]
    /\ InitOf({1})

NextStream ==
    \/ \E r \in Reqs : PreHandler(r)
    \/ \E r \in Reqs, p \in offer.payloads : OnSend(r, p)
    \/ \E r \in Reqs : SourcePull(r)
    \/ \E r \in Reqs : SourceEnd(r)
    \/ \E r \in Reqs : TaskRead(r)
    \/ \E r \in Reqs : CallerRead(r)
    \/ \E r \in Reqs : CallerCancel(r)
    \/ \E a \in pending, ok \in BOOLEAN : AppendSettle(a, ok)

SpecStream == InitStream /\ [][NextStream]_vars

-----------------------------------------------------------------------------
(* Accumulation: the background task on one byte stream, cut into chunks   *)

InitFold ==
    /\ opts = DefaultOpts
    /\ pathname = [r \in {1} |-> GenerationPath]
    /\ inbound = [r \in {1} |-> ExampleInbound]
    /\ offer \in { [payloads |-> {StreamPayload}, streams |-> {st}] :
                    st \in FoldStreams }
    /\ InitOf({1})

NextFold ==
    \/ \E r \in Reqs : PreHandler(r)
    \/ \E r \in Reqs, p \in offer.payloads : OnSend(r, p)
    \/ \E r \in Reqs : SourcePull(r)
    \/ \E r \in Reqs : SourceEnd(r)
    \/ \E r \in Reqs : TaskRead(r)
    \/ \E a \in pending, ok \in BOOLEAN : AppendSettle(a, ok)

SpecFold == InitFold /\ [][NextFold]_vars

-----------------------------------------------------------------------------
(* The sanitizer: the preHandler hook on one generation request, for every *)
(* option setting and a family of request bodies                           *)

Texts == SeqsUpTo({"a", "b"}, MaxLen)

AllOpts ==
    [includeSystemPrompt : BOOLEAN, includeMessages : BOOLEAN,
     includeTools : BOOLEAN, maxMessageLength : 0..MaxN]

RawImage == [type |-> "base64", media_type |-> "image/png", data |-> "iVBOR"]
ImageBlock == [type |-> "image", source |-> RawImage]

Blocks ==
    { [type |-> "text", text |-> t] : t \in Texts } \cup
    { ImageBlock,
      [type |-> "tool_use", name |-> "search", id |-> "tu1",
       input |-> "query"],
      [type |-> "tool_result", tool_use_id |-> "tu1",
       content |-> << ImageBlock >>],
      [type |-> "document", content |-> << ImageBlock >>] }

Contents ==
    { StringContent(t) : t \in Texts } \cup
    { ArrayContent(<< b >>) : b \in Blocks } \cup
    { ArrayContent(<< ImageBlock, [type |-> "text", text |-> << "a", "b" >>] >>),
      [kind |-> "none"] }

MessageLists ==
    { Some(<< [role |-> "user", content |-> c] >>) : c \in Contents } \cup
    { Some(<< [role |-> "user", content |-> StringContent(<< "a", "b" >>)],
              [role |-> "assistant",
               content |-> ArrayContent(<< [type |-> "text",
                                            text |-> << "b", "a", "b" >>] >>)] >>),
      None }

Systems ==
    { None,
      Some(StringContent(<< >>)),
      Some(StringContent(<< "s", "y", "s", "t", "e", "m" >>)),
      Some(ArrayContent(<< ImageBlock >>)) }

ToolLists ==
    { None,
      Some(<< [name |-> "search", description |-> "web search",
               input_schema |-> "schema"] >>) }

Inbounds ==
    { Inbound(Some(Body(m, sy, t))) :
        m \in MessageLists, sy \in Systems, t \in ToolLists } \cup
    { Inbound(None) }

InitSanitize ==
    /\ opts \in AllOpts
    /\ pathname = [r \in {1} |-> GenerationPath]
    /\ inbound \in [{1} -> Inbounds]
    /\ offer = [payloads |-> { }, streams |-> { }]
    /\ InitOf({1})

NextSanitize == \E r \in Reqs : PreHandler(r)

SpecSanitize == InitSanitize /\ [][NextSanitize]_vars

-----------------------------------------------------------------------------
(* The shared log file: two generation requests with streamed responses,   *)
(* whose background tasks run concurrently                                 *)

SharedStreams ==
    { Stream(<< Bytes(StartFrame \o DeltaA), Bytes(ToolFrame \o StopFrame) >>,
             "close"),
      Stream(<< Bytes(RestartFrame \o DeltaB \o UsageFrame) >>, "close") }

InitShared ==
    /\ opts = DefaultOpts
    /\ pathname = [r \in {1, 2} |-> GenerationPath]
    /\ inbound = [r \in {1, 2} |-> ExampleInbound]
    /\ offer = [payloads |-> {StreamPayload}, streams |-> SharedStreams]
    /\ InitOf({1, 2})

NextShared ==
    \/ \E r \in Reqs : PreHandler(r)
    \/ \E r \in Reqs, p \in offer.payloads : OnSend(r, p)
    \/ \E r \in Reqs : SourcePull(r)
    \/ \E r \in Reqs : SourceEnd(r)
    \/ \E r \in Reqs : TaskRead(r)
    \/ \E a \in pending : AppendWrite(a)
    \/ \E a \in pending, ok \in BOOLEAN : AppendSettle(a, ok)

SpecShared == InitShared /\ [][NextShared]_vars

-----------------------------------------------------------------------------
(* Events: the background task on a stream of whole frames, one frame per  *)
(* chunk                                                                   *)

MaxTokensFrame == Frame(MessageDelta(Some("max_tokens"), None))
EmptyDeltaFrame == Frame(MessageDelta(None, None))

EventFrames ==
    { StartFrame, RestartFrame, DeltaA, StopFrame, UsageFrame,
      MaxTokensFrame, EmptyDeltaFrame }

EventStreams ==
    { Stream([i \in DOMAIN fs |-> Bytes(fs[i])], "close") :
        fs \in SeqsUpTo(EventFrames, MaxFrames) }

InitEvents ==
    /\ opts = DefaultOpts
    /\ pathname = [r \in {1} |-> GenerationPath]
    /\ inbound = [r \in {1} |-> ExampleInbound]
    /\ offer \in { [payloads |-> {StreamPayload}, streams |-> {st}] :
                    st \in EventStreams }
    /\ InitOf({1})

NextEvents ==
    \/ \E r \in Reqs : PreHandler(r)
    \/ \E r \in Reqs, p \in offer.payloads : OnSend(r, p)
    \/ \E r \in Reqs : SourcePull(r)
    \/ \E r \in Reqs : SourceEnd(r)
    \/ \E r \in Reqs : TaskRead(r)
    \/ \E a \in pending, ok \in BOOLEAN : AppendSettle(a, ok)

SpecEvents == InitEvents /\ [][NextEvents]_vars

-----------------------------------------------------------------------------
(* Time: one generation request while the clock advances                   *)

TimedStreams == { Stream(<< Bytes(StartFrame \o DeltaA) >>, "close") }

InitTime ==
    /\ opts = DefaultOpts
    /\ pathname = [r \in {1} |-> GenerationPath]
    /\ inbound = [r \in {1} |-> ExampleInbound]
    /\ offer = [payloads |-> {StreamPayload, MessageObject},
                streams |-> TimedStreams]
    /\ InitOf({1})

NextTime ==
    \/ \E r \in Reqs : PreHandler(r)
    \/ \E r \in Reqs, p \in offer.payloads : OnSend(r, p)
    \/ \E r \in Reqs, e \in Errors : OnError(r, e)
    \/ \E r \in Reqs : SourcePull(r)
    \/ \E r \in Reqs : SourceEnd(r)
    \/ \E r \in Reqs : TaskRead(r)
    \/ \E a \in pending, ok \in BOOLEAN : AppendSettle(a, ok)
    \/ Tick

SpecTime == InitTime /\ [][NextTime]_vars

-----------------------------------------------------------------------------
(* The direct path: one generation request whose outbound payloads are     *)
(* single objects                                                          *)

\* an error payload that also carries message fields
ErrorWithFields ==
    [kind |-> "object",
     error |-> Some([type |-> "invalid_request_error", message |-> "bad"]),
     id |-> Some("x9"), model |-> Some("m9"), role |-> Some("assistant"),
     content |-> Some(<< [type |-> "text", text |-> << "z" >>] >>),
     stop_reason |-> Some("refusal"), stop_sequence |-> None,
     usage |-> Some([input_tokens |-> 9, output_tokens |-> 9])]

\* message payloads: tool use only, one text block, one empty text block,
\* no content
DirectPayloads ==
    { MessageObject, ErrorObject, ErrorWithFields,
      Object(None, Some("x2"),
             Some(<< [type |-> "tool_use", name |-> "search",
                      id |-> "tu2"] >>),
             Some("tool_use"), Some(Usage1)),
      Object(None, Some("x3"),
             Some(<< [type |-> "text", text |-> << "c" >>] >>),
             Some("end_turn"), None),
      Object(None, Some("x4"),
             Some(<< [type |-> "text", text |-> << >>] >>),
             Some("end_turn"), Some(Usage2)),
      Object(None, Some("x5"), None, None, None) }

InitDirect ==
    /\ opts = DefaultOpts
    /\ pathname = [r \in {1} |-> GenerationPath]
    /\ inbound = [r \in {1} |-> ExampleInbound]
    /\ offer = [payloads |-> DirectPayloads, streams |-> { }]
    /\ InitOf({1})

NextDirect ==
    \/ \E r \in Reqs : PreHandler(r)
    \/ \E r \in Reqs, p \in offer.payloads : OnSend(r, p)
    \/ \E r \in Reqs, e \in Errors : OnError(r, e)
    \/ \E a \in pending, ok \in BOOLEAN : AppendSettle(a, ok)

SpecDirect == InitDirect /\ [][NextDirect]_vars

-----------------------------------------------------------------------------
(* Properties *)

Captured(r) == logEntry[r] # None

\* the lines of the log file that request r appended
LinesOf(r) == { i \in DOMAIN logFile : logFile[i].req = r }

\* the path of r does not end in /v1/messages (stated on the path itself)
NotGeneration(r) ==
    \/ pathname[r] = None
    \/ LET path == Val(pathname[r]) IN
         ~ (/\ Len(path) >= 2
            /\ path[Len(path) - 1] = "v1"
            /\ path[Len(path)] = "messages")

\* request r went one of the four ways to its end: a payload object was
\* passed through, the error hook returned, or the background task is over
\* (without a rejected append)
Finished(r) ==
    \/ /\ hooks[r].last.hook = "onSend"
       /\ hooks[r].last.payload.kind = "object"
       /\ hooks[r].last.result = "returned"
    \/ /\ hooks[r].last.hook = "onError"
       /\ hooks[r].last.result = "returned"
    \/ /\ task[r].pc = "done"
       /\ [req |-> r, cause |-> "append"] \notin opLog

\* C1: a request that reached the capture hook has exactly one record in the
\* log once it is finished (direct, streaming or error), never zero and never
\* two, for any sequence of onSend, onError and the background task.
C1_ExactlyOneRecord ==
    \A r \in Reqs :
        Captured(r) =>
            /\ Cardinality(LinesOf(r)) <= 1
            /\ Finished(r) => Cardinality(LinesOf(r)) = 1

\* C2: the chunks delivered on the stream onSend returned are those the
\* upstream stream yielded, in the same order and with the same end, whatever
\* the logging side does (it may lag, meet malformed frames, throw, or fail
\* to append).
C2_CallerCopyIdentical ==
    \A r \in Reqs :
        caller[r].state # "none" =>
            /\ IsPrefix(caller[r].got, produced[r])
            /\ (caller[r].state = "reading" /\ source[r].state # "errored")
                   => caller[r].got \o branch[r].original = produced[r]
            /\ caller[r].state = "done"
                   => source[r].state = "closed"
                      /\ caller[r].got = produced[r]
            /\ caller[r].state = "error" => source[r].state = "errored"

\* the caller read a stream of two different chunks to its end while the
\* background task had thrown on the logging side
C2_Witness ==
    \E r \in Reqs :
        /\ caller[r].state = "done"
        /\ Len(caller[r].got) >= 2
        /\ caller[r].got[1] # caller[r].got[2]
        /\ [req |-> r, cause |-> "decode"] \in opLog

\* the data frames of a whole byte stream that parse
ValidEvents(syms) ==
    LET lines == SelectSeq(split(syms),
                           LAMBDA l : startsWithData(l) /\ IsSome(JSONparse(l)))
    IN [i \in DOMAIN lines |-> Val(JSONparse(lines[i]))]

\* the text of every content_block_delta frame, in order
DeltaTexts(events) ==
    LET ds == SelectSeq(events,
                        LAMBDA e : e.type = "content_block_delta"
                                   /\ IsSome(e.delta)
                                   /\ IsSome(Val(e.delta).text))
    IN Concat([i \in DOMAIN ds |-> Val(Val(ds[i].delta).text)])

\* the bytes the upstream stream of r has yielded
WireOf(r) == Concat([i \in DOMAIN produced[r] |-> produced[r][i].syms])

\* the lines the background task of r appended
TaskLines(r) == { i \in LinesOf(r) : logFile[i].from = "task" }

\* C3: the fullText of the record of a streaming response is the
\* concatenation, in arrival order, of the text of every content_block_delta
\* frame of the stream; malformed frames contribute nothing.
C3_FullTextIsConcatenation ==
    \A r \in Reqs : \A i \in TaskLines(r) :
        logFile[i].line.response.fullText = DeltaTexts(ValidEvents(WireOf(r)))

\* C4: a failing file append is never raised out of a hook into the response
\* path.
C4_AppendFailureNotRaised ==
    \A r \in Reqs :
        ~ (hooks[r].last.hook # "none"
           /\ hooks[r].last.result = "raised"
           /\ hooks[r].last.value = "appendFile")

\* C5: onSend completes without raising and returns its payload (for a
\* stream: the branch the caller reads), for every kind of payload.
C5_TransparentPassthrough ==
    \A r \in Reqs :
        hooks[r].last.hook = "onSend" =>
            /\ hooks[r].last.result = "returned"
            /\ \/ hooks[r].last.value = hooks[r].last.payload
               \/ /\ hooks[r].last.payload.kind = "stream"
                  /\ hooks[r].last.value = [kind |-> "branch",
                                            which |-> "original"]

\* C6: for a request whose path does not end in /v1/messages no hook does
\* anything: no log entry, no task, no append, and onSend returns its payload.
C6_OtherPathsUntouched ==
    \A r \in Reqs :
        NotGeneration(r) =>
            /\ logEntry[r] = None
            /\ startTime[r] = None
            /\ task[r] = NoTask
            /\ source[r] = NoSource
            /\ LinesOf(r) = { }
            /\ \A a \in pending : a.req # r
            /\ \A e \in opLog : e.req # r
            /\ running[r] = None
            /\ hooks[r].last.hook # "none"
                   => hooks[r].last.result = "returned"
            /\ hooks[r].last.hook = "onSend"
                   => hooks[r].last.value = hooks[r].last.payload

\* a request for /v1/messages/count_tokens went through preHandler, onError
\* and onSend with a message object
C6_Witness ==
    \E r \in Reqs :
        /\ NotGeneration(r)
        /\ pathname[r] = Some(<< "v1", "messages", "count_tokens" >>)
        /\ hooks[r].pre
        /\ hooks[r].calls >= 2
        /\ hooks[r].last.hook = "onSend"
        /\ hooks[r].last.payload = MessageObject

\* the number a run of decimal digits states; -1 when it is no such run
DigitValue(ch) ==
    IF \E d \in 0..9 : DigitChars[d + 1] = ch
    THEN CHOOSE d \in 0..9 : DigitChars[d + 1] = ch
    ELSE -1

RECURSIVE ParseNat(_)
ParseNat(ds) ==
    IF ds = << >> THEN -1
    ELSE IF DigitValue(ds[Len(ds)]) < 0 THEN -1
    ELSE IF Len(ds) = 1 THEN DigitValue(ds[1])
    ELSE IF ParseNat(SubSeq(ds, 1, Len(ds) - 1)) < 0 THEN -1
    ELSE 10 * ParseNat(SubSeq(ds, 1, Len(ds) - 1)) + DigitValue(ds[Len(ds)])

\* m is the marker '... [truncated, k more chars]'
IsMarkerFor(m, k) ==
    /\ Len(m) > Len(MarkerHead) + Len(MarkerTail)
    /\ SubSeq(m, 1, Len(MarkerHead)) = MarkerHead
    /\ SubSeq(m, Len(m) - Len(MarkerTail) + 1, Len(m)) = MarkerTail
    /\ ParseNat(SubSeq(m, Len(MarkerHead) + 1, Len(m) - Len(MarkerTail))) = k

\* out is text cut to n characters as the claim has it
TruncatedTo(text, n, out) ==
    IF n > 0 /\ Len(text) > n
    THEN /\ Len(out) > n
         /\ SubSeq(out, 1, n) = SubSeq(text, 1, n)
         /\ IsMarkerFor(SubSeq(out, n + 1, Len(out)), Len(text) - n)
    ELSE out = text

\* the messages of the body of r, and those of its log entry
RawMessages(r) ==
    IF IsSome(inbound[r].body) /\ IsSome(Val(inbound[r].body).messages)
    THEN Val(Val(inbound[r].body).messages) ELSE << >>
LoggedMessages(r) == Val(Val(logEntry[r]).request.messages)

IsTextBlock(b) == b.type = "text"

\* C7: with maxMessageLength = N > 0 a text longer than N is logged as its
\* first N characters and a marker stating the number of characters removed;
\* a text of at most N characters, and every text when N = 0, is unchanged.
\* For string contents and for the text blocks of array contents.
C7_Truncation ==
    \A r \in Reqs :
        (Captured(r) /\ opts.includeMessages) =>
            /\ Len(LoggedMessages(r)) = Len(RawMessages(r))
            /\ \A i \in DOMAIN RawMessages(r) :
                 LET raw == RawMessages(r)[i].content
                     out == LoggedMessages(r)[i].content
                 IN /\ raw.kind = "string" =>
                          /\ out.kind = "string"
                          /\ TruncatedTo(raw.text, opts.maxMessageLength,
                                         out.text)
                    /\ raw.kind = "array" =>
                          /\ out.kind = "array"
                          /\ Len(out.items) = Len(raw.items)
                          /\ \A j \in DOMAIN raw.items :
                               IsTextBlock(raw.items[j]) =>
                                   /\ IsTextBlock(out.items[j])
                                   /\ TruncatedTo(raw.items[j].text,
                                                  opts.maxMessageLength,
                                                  out.items[j].text)

\* a logged request with a string content and a text block that were both cut
C7_Witness ==
    \E r \in Reqs :
        /\ Captured(r)
        /\ opts.includeMessages
        /\ opts.maxMessageLength > 0
        /\ \E i \in DOMAIN RawMessages(r) :
             /\ RawMessages(r)[i].content.kind = "string"
             /\ Len(RawMessages(r)[i].content.text) > opts.maxMessageLength
             /\ LoggedMessages(r)[i].content.text
                    # RawMessages(r)[i].content.text
        /\ \E i \in DOMAIN RawMessages(r) :
             /\ RawMessages(r)[i].content.kind = "array"
             /\ \E j \in DOMAIN RawMessages(r)[i].content.items :
                  /\ IsTextBlock(RawMessages(r)[i].content.items[j])
                  /\ Len(RawMessages(r)[i].content.items[j].text)
                         > opts.maxMessageLength
                  /\ LoggedMessages(r)[i].content.items[j].text
                         # RawMessages(r)[i].content.items[j].text

\* C8: a stream that ends early or abnormally still produces a record: once
\* the background task is over (and its append was not rejected), the log
\* holds its record with what was accumulated.
C8_EarlyEndStillLogged ==
    \A r \in Reqs :
        (task[r].pc = "done" /\ [req |-> r, cause |-> "append"] \notin opLog)
            => \E i \in TaskLines(r) :
                   logFile[i].line.response.fullText = task[r].fullText

\* the summary the loop computes when the bytes of r arrive as one chunk
WholeSummary(r) ==
    LET w == processChunk(InitialAcc(None), WireOf(r))
    IN Present([EmptyResponse EXCEPT
                  !.id = w.messageId, !.model = w.model,
                  !.content = w.content, !.fullText = Some(w.fullText),
                  !.stop_reason = w.lastStopReason, !.usage = w.lastUsage])

\* C9: the summary of a streamed response does not depend on how its bytes
\* are cut into chunks: it is the summary of the same bytes in one chunk.
C9_ChunkingIndependent ==
    \A r \in Reqs : \A i \in TaskLines(r) :
        logFile[i].line.response = WholeSummary(r)

HasError(line) == "error" \in DOMAIN line.rest
HasSummary(line) == DOMAIN line.response # { }

\* C10: every record appended is success xor error: it carries an error
\* projection or a response summary, not both and not neither.
C10_SuccessXorError ==
    \A i \in DOMAIN logFile :
        HasError(logFile[i].line) # HasSummary(logFile[i].line)

\* position i of the log file belongs to a whole record: a line written at
\* once, or a first part directly followed by the rest of the same call (or
\* still last in the file while its call is in flight)
InWholeRecord(i) ==
    \/ ~IsPiece(logFile[i])
    \/ /\ logFile[i].part = "head"
       /\ \/ /\ i = Len(logFile)
             /\ Piece(logFile[i], "tail") \in pending
          \/ /\ i < Len(logFile)
             /\ logFile[i + 1] = Piece(logFile[i], "tail")
    \/ /\ logFile[i].part = "tail"
       /\ i > 1
       /\ logFile[i - 1] = Piece(logFile[i], "head")

\* C11: appends are atomic per record: in any interleaving of concurrent
\* requests the log file is a sequence of whole records, with no record's
\* bytes between the parts of another and no partially written record.
C11_AppendsAtomic ==
    \A i \in DOMAIN logFile : InWholeRecord(i)

\* block b carries raw image data: it is an image block with its source, or
\* it holds such a block in its content
IsRawImage(b) == b.type = "image" /\ b.source # ImageOmitted
CarriesRawImage(b) ==
    \/ IsRawImage(b)
    \/ /\ "content" \in DOMAIN b
       /\ \E j \in DOMAIN b.content : IsRawImage(b.content[j])

\* the system prompt of the log entry of r
LoggedSystem(r) == Val(logEntry[r]).request.system

\* C12: the request of a log record never contains raw image data: every
\* image block of the body is logged as the placeholder only, in message
\* contents, in a structured system prompt and inside passed-through blocks.
C12_NoRawImage ==
    \A r \in Reqs :
        Captured(r) =>
            /\ \A i \in DOMAIN LoggedMessages(r) :
                 LoggedMessages(r)[i].content.kind = "array" =>
                     \A j \in DOMAIN LoggedMessages(r)[i].content.items :
                         ~CarriesRawImage(LoggedMessages(r)[i].content.items[j])
            /\ (IsSome(LoggedSystem(r))
                    /\ Val(LoggedSystem(r)).kind = "array") =>
                  \A j \in DOMAIN Val(LoggedSystem(r)).items :
                      ~CarriesRawImage(Val(LoggedSystem(r)).items[j])

\* the events the loop decodes from the chunks r's stream yielded: the data
\* lines of each chunk that parse, chunk after chunk
RECURSIVE EventsOf(_)
EventsOf(chunks) ==
    IF chunks = << >> THEN << >>
    ELSE ValidEvents(Head(chunks).syms) \o EventsOf(Tail(chunks))
SeenEvents(r) == EventsOf(produced[r])

\* field k of a serialized object, as an optional value
Field(obj, k) == IF k \in DOMAIN obj THEN Some(obj[k]) ELSE None

Starts(events) == SelectSeq(events, LAMBDA e : e.type = "message_start")

\* C13: message-start sets id and model only if they are not set: the
\* recorded id and model are those of the first message-start of the
\* stream, and a later message-start does not overwrite or clear them.
C13_FirstMessageStartWins ==
    \A r \in Reqs : \A i \in TaskLines(r) :
        Starts(SeenEvents(r)) # << >> =>
            LET first == Val(Starts(SeenEvents(r))[1].message) IN
              /\ Field(logFile[i].line.response, "id") = first.id
              /\ Field(logFile[i].line.response, "model") = first.model

\* the message-delta events that carry usage, and those with a stop reason
WithUsage(events) ==
    SelectSeq(events, LAMBDA e : e.type = "message_delta" /\ IsSome(e.usage))
WithStop(events) ==
    SelectSeq(events, LAMBDA e : /\ e.type = "message_delta"
                                 /\ IsSome(e.delta)
                                 /\ IsSome(Val(e.delta).stop_reason))
LastOf(q) == q[Len(q)]

\* C14: message-delta is last-value-wins: the recorded usage is the whole
\* usage object of the last message-delta that carried usage, the recorded
\* stop reason that of the last message-delta that carried one; with none,
\* the record has none.
C14_LastDeltaWins ==
    \A r \in Reqs : \A i \in TaskLines(r) :
        LET ev == SeenEvents(r)
            resp == logFile[i].line.response
        IN /\ Field(resp, "usage") =
                 IF WithUsage(ev) = << >> THEN None
                 ELSE LastOf(WithUsage(ev)).usage
           /\ Field(resp, "stop_reason") =
                 IF WithStop(ev) = << >> THEN None
                 ELSE Val(LastOf(WithStop(ev)).delta).stop_reason

\* the record of a stream with two message-deltas that carried usage, the
\* later usage object with fewer counters than the earlier one
C14_Witness ==
    \E r \in Reqs : \E i \in TaskLines(r) :
        /\ Len(WithUsage(SeenEvents(r))) >= 2
        /\ WithUsage(SeenEvents(r))[1].usage = Some(Usage2)
        /\ WithUsage(SeenEvents(r))[2].usage = Some(Usage1)
        /\ Len(WithStop(SeenEvents(r))) >= 1
        /\ logFile[i].line.response.usage = Usage1

\* the background task of r threw while reading or decoding
TaskThrew(r) ==
    \E e \in opLog : e.req = r /\ e.cause \in {"read", "decode"}

\* C15: when the background task throws, the failure is caught at the
\* task's boundary and only reported, no hook raises, and the record is
\* still handed to appendFile exactly once.
C15_ThrowStillLogged ==
    \A r \in Reqs :
        (task[r].pc = "done" /\ TaskThrew(r)) =>
            /\ hooks[r].last.result = "returned"
            /\ Cardinality(TaskLines(r))
                 + Cardinality({a \in pending : a.req = r /\ a.from = "task"})
                 = 1

\* C16: on every path the duration written in a record is the time elapsed
\* between capture (preHandler) and the finalization of that record; for a
\* streamed response it covers the time until the stream has ended.
C16_DurationUntilFinalize ==
    \A i \in DOMAIN logFile :
        logFile[i].line.rest.duration_ms
            = logFile[i].at - Val(startTime[logFile[i].req])

\* the background task of r has started and is not over
TaskRunning(r) == task[r].pc \in {"reading", "appending"}

\* C17: a log entry has one mutator at a time: while the background task of
\* a request is running, no onError invocation has mutated and serialized
\* the entry of that request, so no record is appended half accumulated.
C17_SingleMutator ==
    \A r \in Reqs :
        TaskRunning(r) =>
            /\ running[r] # None => Val(running[r]).hook # "onError"
            /\ \A a \in pending : a.req = r => a.from # "onError"

\* the tool-use entries of a sequence of events, in order
ToolUses(events) ==
    LET bs == SelectSeq(events,
                        LAMBDA e : /\ e.type = "content_block_start"
                                   /\ IsSome(e.content_block)
                                   /\ Val(e.content_block).type = "tool_use")
    IN [i \in DOMAIN bs |-> [type |-> "tool_use",
                             name |-> Val(bs[i].content_block).name,
                             id |-> Val(bs[i].content_block).id]]

\* C18: the background tasks of different requests are isolated: for any
\* interleaving of their chunks and appends, the record of a request holds
\* the id, model, text, tool-use entries, stop reason and usage of the
\* events of its own stream only, in their arrival order.
C18_TasksIsolated ==
    \A r \in Reqs : \A i \in TaskLines(r) :
        LET ev == SeenEvents(r)
            resp == logFile[i].line.response
        IN /\ resp.fullText = DeltaTexts(ev)
           /\ Field(resp, "content") =
                 IF ToolUses(ev) = << >> THEN None ELSE Some(ToolUses(ev))
           /\ Field(resp, "id") =
                 IF Starts(ev) = << >> THEN None
                 ELSE Val(LastOf(Starts(ev)).message).id
           /\ Field(resp, "model") =
                 IF Starts(ev) = << >> THEN None
                 ELSE Val(LastOf(Starts(ev)).message).model
           /\ Field(resp, "usage") =
                 IF WithUsage(ev) = << >> THEN None
                 ELSE LastOf(WithUsage(ev)).usage
           /\ Field(resp, "stop_reason") =
                 IF WithStop(ev) = << >> THEN None
                 ELSE Val(LastOf(WithStop(ev)).delta).stop_reason

\* two requests with different streams both have their record in the log,
\* the record of the second request before that of the first
C18_Witness ==
    \E i, j \in DOMAIN logFile :
        /\ i < j
        /\ logFile[i].req = 2 /\ logFile[i].from = "task"
        /\ logFile[j].req = 1 /\ logFile[j].from = "task"
        /\ produced[1] # produced[2]
        /\ logFile[i].line.response.fullText # << >>
        /\ logFile[j].line.response.fullText # << >>
        /\ logFile[i].line.response.fullText
               # logFile[j].line.response.fullText

\* the texts of the text-tagged blocks of a content list, in order
TextsOf(content) ==
    LET idx == { i \in DOMAIN content : content[i].type = "text" }
        Nth[n \in 0..Cardinality(idx)] ==
            IF n = 0 THEN 0
            ELSE CHOOSE i \in idx :
                    /\ i > Nth[n - 1]
                    /\ \A j \in idx : j > Nth[n - 1] => i <= j
    IN [n \in 1..Cardinality(idx) |-> content[Nth[n]].text]

\* ts with a newline between consecutive elements
RECURSIVE JoinLines(_)
JoinLines(ts) ==
    IF ts = << >> THEN << >>
    ELSE IF Len(ts) = 1 THEN ts[1]
    ELSE JoinLines(SubSeq(ts, 1, Len(ts) - 1)) \o << "\n" >> \o ts[Len(ts)]

PayloadTexts(p) == IF IsSome(p.content) THEN TextsOf(Val(p.content)) ELSE << >>
FullTextOf(line) ==
    IF "fullText" \in DOMAIN line.response THEN line.response.fullText
    ELSE << >>

\* onSend has just handled object payload p of request r on the direct path
\* and its record was appended (the last line of the log)
DirectDone(r) ==
    /\ logEntry[r] # None
    /\ running[r] = None
    /\ hooks[r].last.hook = "onSend"
    /\ hooks[r].last.result = "returned"
    /\ hooks[r].last.payload.kind = "object"
DirectPayload(r) == hooks[r].last.payload
DirectLine == LastOf(logFile).line

\* C19: direct path with a domain-level error: the appended record has the
\* error projection {type, message} of the payload's error field, nothing
\* of the payload is copied into its response summary (which is empty when
\* this is the first outcome of the request), and the hook returns the
\* payload it was given.
C19_DirectError ==
    \A r \in Reqs :
        (DirectDone(r) /\ IsSome(DirectPayload(r).error)) =>
            LET p == DirectPayload(r)
            IN /\ logFile # << >>
               /\ LastOf(logFile).req = r
               /\ LastOf(logFile).from = "onSend"
               /\ DirectLine.rest.error =
                     [type |-> Val(p.error).type,
                      message |-> Val(p.error).message]
               /\ \A k \in DOMAIN DirectLine.response \cap
                            {"id", "model", "content", "fullText",
                             "stop_reason", "usage"} :
                     Some(DirectLine.response[k]) #
                        IF k = "fullText"
                        THEN Some(JoinLines(PayloadTexts(p)))
                        ELSE p[k]
               /\ hooks[r].calls = 1 =>
                     DirectLine.response = Present(EmptyResponse)
               /\ hooks[r].last.value = p

\* the error payload carried message fields of its own and was the first
\* outcome of the request
C19_Witness ==
    \E r \in Reqs :
        /\ DirectDone(r)
        /\ DirectPayload(r) = ErrorWithFields
        /\ hooks[r].calls = 1
        /\ logFile # << >>
        /\ HasError(DirectLine)

\* the summary fields other than fullText are those of the payload
CopiedFields(r) ==
    \A k \in {"id", "model", "role", "content", "stop_reason",
               "stop_sequence", "usage"} :
        Field(DirectLine.response, k) = DirectPayload(r)[k]

\* C20 as stated: on the direct path without an error the summary is the
\* payload's fields and fullText is the concatenation, in order, of the
\* text of every text-tagged content block.
C20_FullTextConcatenated ==
    \A r \in Reqs :
        (DirectDone(r) /\ ~IsSome(DirectPayload(r).error)) =>
            /\ logFile # << >>
            /\ CopiedFields(r)
            /\ hooks[r].calls = 1 =>
                  FullTextOf(DirectLine) =
                     Concat(PayloadTexts(DirectPayload(r)))

\* C20 amended: on the direct path without an error the summary is the
\* payload's fields and fullText is the text of every text-tagged content
\* block, in order, joined with a newline between consecutive blocks; it is
\* not set by a payload whose joined text is empty.
C20_FullTextJoined ==
    \A r \in Reqs :
        (DirectDone(r) /\ ~IsSome(DirectPayload(r).error)) =>
            LET joined == JoinLines(PayloadTexts(DirectPayload(r)))
            IN /\ logFile # << >>
               /\ LastOf(logFile).req = r
               /\ LastOf(logFile).from = "onSend"
               /\ CopiedFields(r)
               /\ joined # << >> =>
                     Field(DirectLine.response, "fullText") = Some(joined)
               /\ (joined = << >> /\ hooks[r].calls = 1) =>
                     "fullText" \notin DOMAIN DirectLine.response

\* a payload with two text blocks around a tool-use block was logged
C20_Witness ==
    \E r \in Reqs :
        /\ DirectDone(r)
        /\ DirectPayload(r) = MessageObject
        /\ logFile # << >>
        /\ Field(DirectLine.response, "fullText") = Some(<< "a", "\n", "b" >>)

=============================================================================
